---- MODULE Spec2Model ----
(***************************************************************************)
(* Concept-discovery pipeline of sep-scrape: fe_no_spacy.py (lexical-only  *)
(* variant, "lexical") and feature_engineer.py (NER variant, "ner").       *)
(*                                                                         *)
(*   Spec         main() of both variants: modalities, synthesis loop.     *)
(*   SpecGraph    build_citation_communities, one loop iteration per step. *)
(*   SpecBridge   find_bridge_articles, one loop iteration per step.       *)
(*   SpecTfidf    calculate_tfidf_fingerprints, one article per step.      *)
(*   SpecRun      main() against the file system: load, save_json.         *)
(*   SpecLatex    LatexProcessingPipeline.process_item, one match per step.*)
(*   SpecEntities extract_entities_and_concepts with nlp.pipe's workers.   *)
(*   SpecSeed     two runs of the partition step over one corpus.          *)
(*   SpecCrawl    SepSpider.parse_article and the item pipelines.          *)
(*                                                                         *)
(* URLs, keywords, entity names are small integers standing for strings.   *)
(***************************************************************************)
EXTENDS Integers, Sequences, FiniteSets, TLC

VARIABLES
    \* ---- main(): environment read by the run
    variant,              \* "lexical" (fe_no_spacy.py) or "ner" (feature_engineer.py)
    tfidf_fingerprints,   \* what calculate_tfidf_fingerprints returns for the corpus
    louvain_partition,    \* node -> community id, as best_partition returns it
    nlp_available,        \* whether spacy.load("en_core_web_lg") succeeds
    nlp_docs,             \* url -> record the spaCy pass yields for that article
    \* ---- main(): locals
    pc, articles, article_keywords, citation_communities, article_entities,
    i, final_clusters, saved,
    \* ---- build_citation_communities(articles)
    g_articles,           \* the argument: records [url, related_entries]
    g_pc, g_idx, g_link,  \* position: loop, article index, link index
    G_nodes, G_edges,     \* G: nodes in insertion order, directed edges
    g_partition,          \* best_partition's result, node -> community_id
    g_communities,        \* the dict: <<community_id, members>> in insertion order
    g_result,             \* the returned list
    \* ---- find_bridge_articles(community_urls, all_article_keywords, core_concepts)
    fb_variant, fb_community_urls, fb_items, fb_core_concepts,
    fb_pc, fb_k, fb_acc,
    \* ---- calculate_tfidf_fingerprints(articles, top_n)
    t_variant, t_top_n,
    tfidf_matrix,         \* article index -> term -> weight
    t_pc, t_idx, t_article_keywords,
    \* ---- main(): the run against the file system
    r_variant,
    r_input_exists,       \* os.path.exists(processed_dir)
    r_input_files,        \* os.listdir(processed_dir): kind of each file
    r_output_exists,      \* whether the output directory was there before the run
    r_terms_remain,       \* whether some term passes min_df and max_df
    r_write_outcome,      \* artifact -> "ok", "open_fails" or "dump_fails"
    r_pc, r_stage,        \* position; index of the artifact being produced
    r_articles,           \* what load_all_articles returned
    r_results,            \* artifact -> the value main() holds for it
    r_created,            \* paths this run created: path -> content
    r_attempts,           \* filepaths save_json was called with, in order
    r_log,                \* logging records, in order
    \* ---- LatexProcessingPipeline.process_item(item, spider)
    x_item,               \* the item: field -> value
    x_pc, x_pos,          \* position; tokens of raw_text consumed by sub()
    unique_expressions, expression_to_id,
    x_out,                \* the text sub() has built so far
    \* ---- extract_entities_and_concepts(articles)
    e_articles,           \* the argument: records [url, text_with_placeholders]
    e_available,          \* whether spacy.load succeeds
    e_n_process,          \* worker processes nlp.pipe starts (n_process=-1: the cores)
    e_finished,           \* batches whose worker has finished them
    e_pc, e_i,            \* position; enumerate's index
    e_article_entities,
    \* ---- two runs of the partition step over the same corpus
    d_articles,           \* the corpus: article URLs in load order
    d_seed,               \* the seed the operator wants both runs to use
    d_louvain,            \* best_partition: state of the random generator -> labels
    d_pc,                 \* run -> position
    d_random_state,       \* run -> state of numpy's global generator in that process
    d_partition,          \* run -> what best_partition returned
    d_clusters,           \* run -> the cluster ids and memberships synthesized
    \* ---- the crawl: SepSpider.parse_article and the item pipelines
    c_dry_run,            \* the spider argument dry_run
    c_responses,          \* the downloaded pages, by request
    c_write_ok,           \* request -> whether the storage stage can write its file
    c_status,             \* request -> "pending", "no_item", "pipeline", "dropped", "scraped"
    c_stage,              \* request -> index of the next pipeline for its item
    c_item,               \* request -> the item: field -> value
    c_files,              \* processed_articles/: filename -> record
    c_stats               \* crawler.stats: counter -> value

envVars  == <<variant, tfidf_fingerprints, louvain_partition, nlp_available, nlp_docs>>
mainVars == <<pc, articles, article_keywords, citation_communities,
              article_entities, i, final_clusters, saved>>
graphVars == <<g_articles, g_pc, g_idx, g_link, G_nodes, G_edges, g_partition,
               g_communities, g_result>>
bridgeVars == <<fb_variant, fb_community_urls, fb_items, fb_core_concepts,
                fb_pc, fb_k, fb_acc>>
tfidfVars == <<t_variant, t_top_n, tfidf_matrix, t_pc, t_idx, t_article_keywords>>
runVars == <<r_variant, r_input_exists, r_input_files, r_output_exists,
             r_terms_remain, r_write_outcome, r_pc, r_stage, r_articles, r_results, r_created,
             r_attempts, r_log>>
latexVars == <<x_item, x_pc, x_pos, unique_expressions, expression_to_id, x_out>>
entityVars == <<e_articles, e_available, e_n_process, e_finished, e_pc, e_i,
                e_article_entities>>
seedVars == <<d_articles, d_seed, d_louvain, d_pc, d_random_state, d_partition,
              d_clusters>>
crawlVars == <<c_dry_run, c_responses, c_write_ok, c_status, c_stage, c_item,
               c_files, c_stats>>
vars     == <<envVars, mainVars, graphVars, bridgeVars, tfidfVars, runVars,
              latexVars, entityVars, seedVars, crawlVars>>

\* A function that is not running: its variables rest.
MainIdle ==
    /\ variant = "lexical" /\ tfidf_fingerprints = <<>> /\ louvain_partition = <<>>
    /\ nlp_available = FALSE /\ nlp_docs = <<>>
    /\ pc = "idle" /\ articles = <<>> /\ article_keywords = <<>>
    /\ citation_communities = <<>> /\ article_entities = <<>>
    /\ i = 0 /\ final_clusters = <<>> /\ saved = <<>>

GraphIdle ==
    /\ g_articles = <<>> /\ g_pc = "idle" /\ g_idx = 0 /\ g_link = 0
    /\ G_nodes = <<>> /\ G_edges = {} /\ g_partition = <<>>
    /\ g_communities = <<>> /\ g_result = <<>>

BridgeIdle ==
    /\ fb_variant = "lexical" /\ fb_community_urls = {} /\ fb_items = <<>>
    /\ fb_core_concepts = {} /\ fb_pc = "idle" /\ fb_k = 0
    /\ fb_acc = [bridge_articles |-> <<>>, raised |-> FALSE]

TfidfIdle ==
    /\ t_variant = "lexical" /\ t_top_n = 0 /\ tfidf_matrix = <<>>
    /\ t_pc = "idle" /\ t_idx = 0 /\ t_article_keywords = <<>>

RunIdle ==
    /\ r_variant = "lexical" /\ r_input_exists = FALSE /\ r_input_files = <<>>
    /\ r_output_exists = FALSE /\ r_terms_remain = FALSE
    /\ r_write_outcome = <<>> /\ r_pc = "idle"
    /\ r_stage = 0 /\ r_articles = <<>> /\ r_results = <<>> /\ r_created = <<>>
    /\ r_attempts = <<>> /\ r_log = <<>>

LatexIdle ==
    /\ x_item = <<>> /\ x_pc = "idle" /\ x_pos = 0 /\ unique_expressions = <<>>
    /\ expression_to_id = <<>> /\ x_out = <<>>

EntityIdle ==
    /\ e_articles = <<>> /\ e_available = FALSE /\ e_n_process = 0
    /\ e_finished = {} /\ e_pc = "idle" /\ e_i = 0 /\ e_article_entities = <<>>

SeedIdle ==
    /\ d_articles = <<>> /\ d_seed = 0 /\ d_louvain = <<>> /\ d_pc = <<>>
    /\ d_random_state = <<>> /\ d_partition = <<>> /\ d_clusters = <<>>

CrawlIdle ==
    /\ c_dry_run = "false" /\ c_responses = <<>> /\ c_write_ok = <<>>
    /\ c_status = <<>> /\ c_stage = <<>> /\ c_item = <<>> /\ c_files = <<>>
    /\ c_stats = <<>>

\* ------------------------------------------------------------------------
\* Program constants
\* ------------------------------------------------------------------------
MinClusterSize == 5           \* if len(community_urls) < 5: continue
TopKeywords == 15             \* most_common(15) of the community keywords
TopPeople == 10               \* most_common(10) of the community people
TopConcepts == 15             \* most_common(15) of the community concepts
DefaultTopN == 20             \* top_n: int = 20
LexicalThresholdTenths == 1   \* similarity_threshold: float = 0.1
NerThresholdTenths == 2       \* similarity_threshold: float = 0.2

\* ------------------------------------------------------------------------
\* Bounds of the model
\* ------------------------------------------------------------------------
NumArticles == 11             \* articles of the corpus main() loads
MaxCommunities == 3           \* communities the detection step may return

Urls == 1..NumArticles

\* ------------------------------------------------------------------------
\* Python helpers
\* ------------------------------------------------------------------------
Range(s) == {s[k] : k \in DOMAIN s}

Min(a, b) == IF a <= b THEN a ELSE b

\* dict.get(key, default) on a mapping modelled as a function
Get(d, key, default) == IF key \in DOMAIN d THEN d[key] ELSE default

\* [x for part in parts for x in part]
RECURSIVE Flatten(_)
Flatten(parts) ==
    IF parts = <<>> THEN <<>> ELSE Head(parts) \o Flatten(Tail(parts))

\* A function as an explicit table (TLC evaluates [x \in S |-> e] lazily,
\* once per application, unless it is tabulated).
Table(f) == f @@ <<>>

\* Counter(s).most_common(n): heapq.nlargest(n, items, key=count), which is
\* sorted(items, key=count, reverse=True)[:n]; the sort is stable, and a
\* Counter keeps its keys in order of first occurrence.
most_common(s, n) ==
    LET keys  == Range(s)
        at    == Table([x \in keys |-> {k \in DOMAIN s : s[k] = x}])
        cnt   == Table([x \in keys |-> Cardinality(at[x])])
        first == Table([x \in keys |-> CHOOSE k \in at[x] : \A j \in at[x] : k <= j])
        rank  == Table([x \in keys |-> Cardinality({y \in keys :
                                    \/ cnt[y] > cnt[x]
                                    \/ cnt[y] = cnt[x] /\ first[y] < first[x]})])
    IN  [k \in 1..Min(n, Cardinality(keys)) |-> CHOOSE x \in keys : rank[x] = k - 1]

\* ------------------------------------------------------------------------
\* find_bridge_articles
\* ------------------------------------------------------------------------
similarity_threshold(v) ==
    IF v = "lexical" THEN LexicalThresholdTenths ELSE NerThresholdTenths

\* Mutant of RatioAtLeast: > where the code has >=.
RatioAbove(numer, denom, tenths) == 10 * numer > tenths * denom

\* len(intersection) / len(article_keyword_set) >= similarity_threshold.
\* Both operands are small integers and the threshold is tenths/10, so the
\* correctly rounded float quotient compares with the float literal exactly
\* as the rationals do.  Called only with denom > 0.
RatioAtLeast(numer, denom, tenths) == 10 * numer >= tenths * denom

\* Mutant of NoKeywords: the guard never skips an article.
NoKeywordsNever(article_keyword_set) == FALSE

\* `if not article_keyword_set: continue`
NoKeywords(article_keyword_set) == article_keyword_set = {}

\* Mutant of BridgeStep: the test `url not in community_urls` is missing.
BridgeStepAnyUrl(acc, url, keywords, community_urls, core_concepts, tenths) ==
    LET article_keyword_set == Range(keywords)
        intersection == article_keyword_set \cap core_concepts
    IN  IF acc.raised THEN acc
        ELSE IF NoKeywords(article_keyword_set) THEN acc
        ELSE IF Cardinality(article_keyword_set) = 0
             THEN [acc EXCEPT !.raised = TRUE]
        ELSE IF RatioAtLeast(Cardinality(intersection),
                             Cardinality(article_keyword_set), tenths)
             THEN [acc EXCEPT !.bridge_articles = Append(@, url)]
             ELSE acc

\* One iteration of `for url, keywords in all_article_keywords.items()`.
\* The division raises ZeroDivisionError on an empty keyword set, which
\* leaves the function: acc.raised records it.
BridgeStep(acc, url, keywords, community_urls, core_concepts, tenths) ==
    LET article_keyword_set == Range(keywords)
        intersection == article_keyword_set \cap core_concepts
    IN  IF acc.raised \/ url \in community_urls THEN acc
        ELSE IF NoKeywords(article_keyword_set) THEN acc
        ELSE IF Cardinality(article_keyword_set) = 0
             THEN [acc EXCEPT !.raised = TRUE]
        ELSE IF RatioAtLeast(Cardinality(intersection),
                             Cardinality(article_keyword_set), tenths)
             THEN [acc EXCEPT !.bridge_articles = Append(@, url)]
             ELSE acc

RECURSIVE BridgeLoop(_, _, _, _, _, _)
BridgeLoop(acc, keys, all_article_keywords, community_urls, core_concepts, tenths) ==
    IF keys = <<>> THEN acc
    ELSE BridgeLoop(
            BridgeStep(acc, Head(keys), all_article_keywords[Head(keys)],
                       community_urls, core_concepts, tenths),
            Tail(keys), all_article_keywords, community_urls, core_concepts, tenths)

\* keys: the dict's keys in insertion order (the order of the article list)
find_bridge_articles(keys, community_urls, all_article_keywords, core_concepts, tenths) ==
    BridgeLoop([bridge_articles |-> <<>>, raised |-> FALSE],
               keys, all_article_keywords, community_urls, core_concepts, tenths)

\* ------------------------------------------------------------------------
\* build_citation_communities: grouping the labels into the returned list
\* ------------------------------------------------------------------------
\* The dict `communities` is the sequence of its <<community_id, members>>
\* items in insertion order.

\* Mutant of SetdefaultAppend: the member list is replaced, not extended.
SetdefaultAssign(d, community_id, node) ==
    IF \E k \in DOMAIN d : d[k][1] = community_id
    THEN Table([k \in DOMAIN d |->
                IF d[k][1] = community_id THEN <<community_id, <<node>>>> ELSE d[k]])
    ELSE Append(d, <<community_id, <<node>>>>)

\* communities.setdefault(community_id, []).append(node)
SetdefaultAppend(d, community_id, node) ==
    IF \E k \in DOMAIN d : d[k][1] = community_id
    THEN Table([k \in DOMAIN d |->
                IF d[k][1] = community_id
                THEN <<community_id, Append(d[k][2], node)>> ELSE d[k]])
    ELSE Append(d, <<community_id, <<node>>>>)

\* list(communities.values())
Values(d) == Table([k \in DOMAIN d |-> d[k][2]])

\* for node, community_id in partition.items(): ...
\* nodes: partition's keys in order (the graph's node order).
RECURSIVE GroupLoop(_, _, _)
GroupLoop(d, nodes, labels) ==
    IF nodes = <<>> THEN d
    ELSE GroupLoop(SetdefaultAppend(d, labels[Head(nodes)], Head(nodes)),
                   Tail(nodes), labels)

GroupCommunities(nodes, labels) == Values(GroupLoop(<<>>, nodes, labels))

\* ------------------------------------------------------------------------
\* extract_entities_and_concepts
\* ------------------------------------------------------------------------
EmptyMapping == <<>>

EmptyEntities == [people |-> <<>>, works |-> <<>>, concepts |-> <<>>]

\* except OSError: return {}; otherwise one record per article, stored
\* under urls[i] for the i-th document of the pipe.
extract_entities_and_concepts(arts, available, docs) ==
    IF ~available THEN EmptyMapping
    ELSE [url \in Range(arts) |-> docs[url]]

\* ------------------------------------------------------------------------
\* main(): the body of the synthesis loop
\* ------------------------------------------------------------------------
\* f"citation_cluster_{i}"
ClusterId(idx) == <<"citation_cluster_", idx>>

MemberKeywords(community_urls, keywords) ==
    Flatten([k \in DOMAIN community_urls |-> Get(keywords, community_urls[k], <<>>)])

MemberEntities(community_urls, entities, field) ==
    Flatten([k \in DOMAIN community_urls |->
                Get(entities, community_urls[k], EmptyEntities)[field]])

\* Mutant of ComparisonSet: the NER concepts are folded into the set.
ComparisonSetWithConcepts(v, top_keywords, top_concepts) ==
    Range(top_keywords) \cup Range(top_concepts)

\* The set main() hands to find_bridge_articles as core_concepts:
\* set(core_concepts) in fe_no_spacy.py, set(top_keywords) in feature_engineer.py.
ComparisonSet(v, top_keywords, top_concepts) == Range(top_keywords)

\* The cluster record of community idx, and whether building it raised.
\* keys: article_keywords' keys in insertion order.
ClusterObj(v, idx, community_urls, keys, keywords, entities) ==
    LET top_keywords == most_common(MemberKeywords(community_urls, keywords), TopKeywords)
        top_people   == most_common(MemberEntities(community_urls, entities, "people"), TopPeople)
        top_concepts == most_common(MemberEntities(community_urls, entities, "concepts"), TopConcepts)
        found == find_bridge_articles(keys, Range(community_urls), keywords,
                                      ComparisonSet(v, top_keywords, top_concepts),
                                      similarity_threshold(v))
    IN  [raised |-> found.raised,
         obj |-> IF v = "lexical"
                 THEN [cluster_id |-> ClusterId(idx),
                       core_concepts |-> top_keywords,
                       core_articles |-> community_urls,
                       bridge_articles |-> found.bridge_articles]
                 ELSE [cluster_id |-> ClusterId(idx),
                       top_keywords_tfidf |-> top_keywords,
                       top_concepts_ner |-> top_concepts,
                       key_people |-> top_people,
                       core_articles |-> community_urls,
                       bridge_articles |-> found.bridge_articles]]

\* ------------------------------------------------------------------------
\* Inputs of main()
\* ------------------------------------------------------------------------
Window(a, n) == [k \in 1..n |-> a + k - 1]

\* Fingerprints the fitted vectorizer can hand back.  fe_no_spacy.py slices
\* the dense row (argsort()[-top_n:]), so every article gets top_n terms
\* there; feature_engineer.py may also return shorter and empty lists.
FingerprintShapes(v) ==
    IF v = "lexical"
    THEN {Window(s, DefaultTopN) : s \in {1, 14, 15, 16}}
    ELSE {Window(s, DefaultTopN) : s \in {1, 12, 13}} \cup {Window(16, 5), <<>>}

\* Where a corpus switches from one fingerprint shape to the other.
SplitPoints == {0, 2, MinClusterSize}

FingerprintProfiles(v) ==
    {[u \in Urls |-> IF u <= j THEN x ELSE y] :
        j \in SplitPoints, x \in FingerprintShapes(v), y \in FingerprintShapes(v)}

\* Label assignments: runs of consecutive articles (cuts), or round robin.
CutPartitions ==
    {[u \in Urls |-> Cardinality({c \in cuts : c < u})] :
        cuts \in {cs \in SUBSET (1..(NumArticles - 1)) : Cardinality(cs) < MaxCommunities}}

RoundRobinPartitions ==
    {[u \in Urls |-> u % m] : m \in 1..MaxCommunities}

LabelAssignments == CutPartitions \cup RoundRobinPartitions

\* What the spaCy pass finds in each article.
DocProfiles ==
    {[u \in Urls |-> [people |-> <<100 + (u % 2)>>, works |-> <<>>,
                      concepts |-> <<16, 17, 40 + u>>]],
     [u \in Urls |-> [people |-> <<>>, works |-> <<200 + u>>,
                      concepts |-> IF u % 2 = 0 THEN <<16>> ELSE <<>>]]}

NoDocs == [u \in Urls |-> EmptyEntities]

\* ------------------------------------------------------------------------
\* main()
\* ------------------------------------------------------------------------
FingerprintFile(v) == "1_lexical_fingerprints.json"
CommunityFile(v) == "2_citation_communities.json"
EntityFile(v) == "4_entities_and_concepts.json"
ClusterFile(v) ==
    IF v = "lexical" THEN "3_synthesized_clusters.json"
    ELSE "5_synthesized_clusters_ner.json"

Init ==
    /\ variant \in {"lexical", "ner"}
    /\ tfidf_fingerprints \in FingerprintProfiles(variant)
    /\ louvain_partition \in LabelAssignments
    /\ nlp_available \in (IF variant = "ner" THEN BOOLEAN ELSE {FALSE})
    /\ nlp_docs \in (IF variant = "ner" THEN DocProfiles ELSE {NoDocs})
    /\ pc = "load"
    /\ articles = <<>>
    /\ article_keywords = EmptyMapping
    /\ citation_communities = <<>>
    /\ article_entities = EmptyMapping
    /\ i = 0
    /\ final_clusters = <<>>
    /\ saved = <<>>
    /\ GraphIdle /\ BridgeIdle /\ TfidfIdle /\ RunIdle /\ LatexIdle /\ EntityIdle /\ SeedIdle /\ CrawlIdle

\* articles = load_all_articles(args.input_dir)
Load ==
    /\ pc = "load"
    /\ articles' = [k \in 1..NumArticles |-> k]
    /\ pc' = "modality1"
    /\ UNCHANGED <<graphVars, bridgeVars, tfidfVars, envVars, article_keywords, citation_communities,
                   article_entities, i, final_clusters, saved, runVars, latexVars, entityVars, seedVars, crawlVars>>

\* article_keywords = calculate_tfidf_fingerprints(articles); save_json(...)
Modality1 ==
    /\ pc = "modality1"
    /\ article_keywords' = tfidf_fingerprints
    /\ saved' = Append(saved, FingerprintFile(variant))
    /\ pc' = "modality2"
    /\ UNCHANGED <<graphVars, bridgeVars, tfidfVars, envVars, articles, citation_communities,
                   article_entities, i, final_clusters, runVars, latexVars, entityVars, seedVars, crawlVars>>

\* citation_communities = build_citation_communities(articles); save_json(...)
Modality2 ==
    /\ pc = "modality2"
    /\ citation_communities' = GroupCommunities(articles, louvain_partition)
    /\ saved' = Append(saved, CommunityFile(variant))
    /\ pc' = IF variant = "ner" THEN "modality4" ELSE "synthesis"
    /\ UNCHANGED <<graphVars, bridgeVars, tfidfVars, envVars, articles, article_keywords,
                   article_entities, i, final_clusters, runVars, latexVars, entityVars, seedVars, crawlVars>>

\* article_entities = extract_entities_and_concepts(articles); save_json(...)
Modality4 ==
    /\ pc = "modality4"
    /\ article_entities' = extract_entities_and_concepts(articles, nlp_available, nlp_docs)
    /\ saved' = Append(saved, EntityFile(variant))
    /\ pc' = "synthesis"
    /\ UNCHANGED <<graphVars, bridgeVars, tfidfVars, envVars, articles, article_keywords,
                   citation_communities, i, final_clusters, runVars, latexVars, entityVars, seedVars, crawlVars>>

\* Mutant of TooSmall: <= where the code has <.
TooSmallOrFive(community_urls) == Len(community_urls) <= MinClusterSize

\* if len(community_urls) < 5: continue
TooSmall(community_urls) == Len(community_urls) < MinClusterSize

\* for i, community_urls in enumerate(citation_communities):
\*     if len(community_urls) < 5: continue
SynthSkip ==
    /\ pc = "synthesis"
    /\ i < Len(citation_communities)
    /\ TooSmall(citation_communities[i + 1])
    /\ i' = i + 1
    /\ UNCHANGED <<graphVars, bridgeVars, tfidfVars, envVars, pc, articles, article_keywords, citation_communities,
                   article_entities, final_clusters, saved, runVars, latexVars, entityVars, seedVars, crawlVars>>

\* Mutant of SynthEmit: the record is numbered by its position in the output.
SynthEmitRenumbered ==
    /\ pc = "synthesis"
    /\ i < Len(citation_communities)
    /\ Len(citation_communities[i + 1]) >= MinClusterSize
    /\ final_clusters' = Append(final_clusters,
            ClusterObj(variant, Len(final_clusters), citation_communities[i + 1],
                       articles, article_keywords, article_entities).obj)
    /\ i' = i + 1
    /\ UNCHANGED <<graphVars, bridgeVars, tfidfVars, envVars, pc, articles, article_keywords, citation_communities,
                   article_entities, saved, runVars, latexVars, entityVars, seedVars, crawlVars>>

\*     ... final_clusters.append(cluster_obj)
SynthEmit ==
    /\ pc = "synthesis"
    /\ i < Len(citation_communities)
    /\ ~TooSmall(citation_communities[i + 1])
    /\ LET built == ClusterObj(variant, i, citation_communities[i + 1], articles,
                               article_keywords, article_entities)
       IN  IF built.raised
           THEN /\ pc' = "raised"
                /\ UNCHANGED <<i, final_clusters>>
           ELSE /\ final_clusters' = Append(final_clusters, built.obj)
                /\ i' = i + 1
                /\ pc' = pc
    /\ UNCHANGED <<graphVars, bridgeVars, tfidfVars, envVars, articles, article_keywords, citation_communities,
                   article_entities, saved, runVars, latexVars, entityVars, seedVars, crawlVars>>

\* save_json(final_clusters, ...)
SaveClusters ==
    /\ pc = "synthesis"
    /\ i = Len(citation_communities)
    /\ saved' = Append(saved, ClusterFile(variant))
    /\ pc' = "done"
    /\ UNCHANGED <<graphVars, bridgeVars, tfidfVars, envVars, articles, article_keywords, citation_communities,
                   article_entities, i, final_clusters, runVars, latexVars, entityVars, seedVars, crawlVars>>

Next ==
    \/ Load
    \/ Modality1
    \/ Modality2
    \/ Modality4
    \/ SynthSkip
    \/ SynthEmit
    \/ SaveClusters

Spec == Init /\ [][Next]_vars

\* ------------------------------------------------------------------------
\* Properties of main()
\* ------------------------------------------------------------------------
Records == DOMAIN final_clusters

RecordsOf(community_urls) ==
    Cardinality({n \in Records : final_clusters[n].core_articles = community_urls})

Overlap(keywords, comparison) == Cardinality(Range(keywords) \cap comparison)

Size(keywords) == Cardinality(Range(keywords))

\* C1: a cluster record is emitted for a community iff it has at least 5
\* members: no record has fewer than 5 core_articles, every community the
\* loop has passed has exactly one record if it has 5 or more members and
\* none otherwise, and the loop passes every community before main() ends.
C1_EmitIffAtLeastFive ==
    /\ \A n \in Records : Len(final_clusters[n].core_articles) >= 5
    /\ \A k \in DOMAIN citation_communities :
          k <= i => RecordsOf(citation_communities[k]) =
                        IF Len(citation_communities[k]) >= 5 THEN 1 ELSE 0
    /\ pc = "done" => i = Len(citation_communities)

C1_Witness ==
    /\ pc = "done"
    /\ \E k \in DOMAIN citation_communities : Len(citation_communities[k]) = 5
    /\ \E k \in DOMAIN citation_communities : Len(citation_communities[k]) = 4
    /\ Len(final_clusters) = 1

\* C2: in every emitted cluster record, bridge_articles and core_articles
\* have no URL in common.
C2_BridgesDisjointFromCore ==
    \A n \in Records :
        Range(final_clusters[n].bridge_articles)
            \cap Range(final_clusters[n].core_articles) = {}

C2_Witness ==
    /\ pc = "done"
    /\ \E n \in Records :
          /\ final_clusters[n].bridge_articles # <<>>
          /\ \E u \in Range(final_clusters[n].core_articles) : article_keywords[u] # <<>>

\* C6 (as the claim states it): an outside article with a non-empty
\* fingerprint is a bridge iff its overlap ratio reaches the threshold,
\* 0.1 against core_concepts in the lexical variant and 0.2 against the top
\* keywords together with the NER concepts in the NER variant.
C6_Original ==
    \A n \in Records : \A u \in DOMAIN article_keywords :
        LET r == final_clusters[n]
            fp == article_keywords[u]
        IN  (u \notin Range(r.core_articles) /\ fp # <<>>) =>
            IF variant = "lexical"
            THEN u \in Range(r.bridge_articles)
                    <=> 10 * Overlap(fp, Range(r.core_concepts)) >= 1 * Size(fp)
            ELSE u \in Range(r.bridge_articles)
                    <=> 10 * Overlap(fp, Range(r.top_keywords_tfidf)
                                            \cup Range(r.top_concepts_ner))
                            >= 2 * Size(fp)

\* C6 (amended): as above, but in the NER variant the comparison set is the
\* record's top keywords alone; the NER concepts take no part in it.
C6_BridgeIffRatioReachesThreshold ==
    \A n \in Records : \A u \in DOMAIN article_keywords :
        LET r == final_clusters[n]
            fp == article_keywords[u]
        IN  (u \notin Range(r.core_articles) /\ fp # <<>>) =>
            IF variant = "lexical"
            THEN u \in Range(r.bridge_articles)
                    <=> 10 * Overlap(fp, Range(r.core_concepts)) >= 1 * Size(fp)
            ELSE u \in Range(r.bridge_articles)
                    <=> 10 * Overlap(fp, Range(r.top_keywords_tfidf)) >= 2 * Size(fp)

\* An NER record with an outside article exactly on the threshold, which
\* is a bridge.
C6_Witness ==
    /\ pc = "done"
    /\ variant = "ner"
    /\ \E n \in Records : \E u \in DOMAIN article_keywords :
          LET r == final_clusters[n]
              fp == article_keywords[u]
          IN  /\ u \in Range(r.bridge_articles)
              /\ 10 * Overlap(fp, Range(r.top_keywords_tfidf)) = 2 * Size(fp)
              /\ r.top_concepts_ner # <<>>

\* C7: the record at each position of the output is keyed by the index of
\* its community in the list build_citation_communities returned, holds that
\* community's member list, and the indices increase along the output.
C7_IdsAreCommunityIndices ==
    /\ \A n \in Records :
          \E k \in 0..(Len(citation_communities) - 1) :
              /\ final_clusters[n].cluster_id = <<"citation_cluster_", k>>
              /\ final_clusters[n].core_articles = citation_communities[k + 1]
    /\ \A n, m \in Records :
          n < m => final_clusters[n].cluster_id[2] < final_clusters[m].cluster_id[2]

C7_Witness ==
    /\ pc = "done"
    /\ Len(final_clusters) = 2
    /\ final_clusters[1].cluster_id = <<"citation_cluster_", 0>>
    /\ final_clusters[2].cluster_id = <<"citation_cluster_", 2>>
    /\ Len(citation_communities[2]) < 5

\* The clusters main() builds from communities k.. of the list, as a function
\* of the entity mapping it is given.
RECURSIVE SynthesizeFrom(_, _, _, _, _, _)
SynthesizeFrom(k, v, communities, keys, keywords, entities) ==
    IF k > Len(communities) THEN <<>>
    ELSE IF Len(communities[k]) < 5
         THEN SynthesizeFrom(k + 1, v, communities, keys, keywords, entities)
         ELSE <<ClusterObj(v, k - 1, communities[k], keys, keywords, entities).obj>>
                \o SynthesizeFrom(k + 1, v, communities, keys, keywords, entities)

\* The clusters of the same run had the language model been available.
ClustersWithModel ==
    SynthesizeFrom(1, variant, citation_communities, articles, article_keywords,
                   [u \in Range(articles) |-> nlp_docs[u]])

Membership(r) == <<r.cluster_id, r.core_articles, r.bridge_articles>>

\* C10: when the language model cannot be loaded, the entity mapping is
\* empty, main() raises nowhere and the synthesis loop stays within the
\* list, and when it is done the four artifacts are written and the clusters have
\* the ids, core_articles and bridge_articles of the run with the model and
\* empty NER-derived fields.
C10_RunsWithoutModel ==
    (variant = "ner" /\ ~nlp_available) =>
        /\ pc # "raised"
        /\ pc \in {"synthesis", "done"} => article_entities = <<>>
        /\ pc = "synthesis" => i <= Len(citation_communities)
        /\ pc = "done" =>
              /\ saved = <<"1_lexical_fingerprints.json", "2_citation_communities.json",
                           "4_entities_and_concepts.json", "5_synthesized_clusters_ner.json">>
              /\ Len(final_clusters) = Len(ClustersWithModel)
              /\ \A n \in Records :
                    /\ Membership(final_clusters[n]) = Membership(ClustersWithModel[n])
                    /\ final_clusters[n].top_concepts_ner = <<>>
                    /\ final_clusters[n].key_people = <<>>

C10_Witness ==
    /\ pc = "done"
    /\ variant = "ner"
    /\ ~nlp_available
    /\ \E n \in Records :
          /\ final_clusters[n].bridge_articles # <<>>
          /\ ClustersWithModel[n].top_concepts_ner # <<>>
          /\ ClustersWithModel[n].key_people # <<>>

\* ========================================================================
\* build_citation_communities(articles), one loop iteration per step
\* ========================================================================
NumGraphArticles == 3         \* bound: articles of the corpus
MaxLinks == 2                 \* bound: citation links in the corpus

GraphUrls == 1..NumGraphArticles

\* A URL no article of the corpus has (an external or broken link).
ExternalUrl == NumGraphArticles + 1

LinkTargets == GraphUrls \cup {ExternalUrl}

\* The links of a corpus: <<source, dest>> pairs, grouped by source article.
LinkLists ==
    {ls \in UNION {[1..m -> GraphUrls \X LinkTargets] : m \in 0..MaxLinks} :
        \A k \in 1..(Len(ls) - 1) : ls[k][1] <= ls[k + 1][1]}

RelatedEntries(ls, url) ==
    LET mine == SelectSeq(ls, LAMBDA l : l[1] = url)
    IN  Table([k \in DOMAIN mine |-> mine[k][2]])

\* The article records of a corpus; url is the records' unique identifier.
Corpus(ls) ==
    [k \in GraphUrls |-> [url |-> k, related_entries |-> RelatedEntries(ls, k)]]

ArticleUrls == {g_articles[k].url : k \in DOMAIN g_articles}

\* Mutant of InGraph: every destination counts as known.
InGraphAlways(url, nodes) == TRUE

\* `dest_url in G`
InGraph(url, nodes) == url \in Range(nodes)

\* G.add_node(url): a node already present stays where it is.
add_node(nodes, url) == IF url \in Range(nodes) THEN nodes ELSE Append(nodes, url)

\* G.add_edge(u, v): networkx adds either end point that is not yet a node.
add_edge_nodes(nodes, u, v) == add_node(add_node(nodes, u), v)

\* community_louvain.best_partition(G.to_undirected()): a label for every
\* node.  Only equality of labels is read by the code, so the assignments are
\* taken up to renaming: node k's label is at most one more than the labels
\* before it.
PartitionsOf(nodes) ==
    LET n == Len(nodes)
        growth == {f \in [1..n -> 0..(n - 1)] :
                      \A k \in 1..n :
                          \/ f[k] = 0
                          \/ \E j \in 1..(k - 1) : f[j] >= f[k] - 1}
    IN  {[node \in Range(nodes) |->
            f[CHOOSE k \in 1..n : nodes[k] = node]] : f \in growth}

InitGraph ==
    /\ g_articles \in {Corpus(ls) : ls \in LinkLists}
    /\ g_pc = "add_nodes"
    /\ g_idx = 1
    /\ g_link = 1
    /\ G_nodes = <<>>
    /\ G_edges = {}
    /\ g_partition = <<>>
    /\ g_communities = <<>>
    /\ g_result = <<>>
    /\ MainIdle /\ BridgeIdle /\ TfidfIdle /\ RunIdle /\ LatexIdle /\ EntityIdle /\ SeedIdle /\ CrawlIdle

\* for article in articles: G.add_node(article['url'], title=article['title'])
AddNode ==
    /\ g_pc = "add_nodes"
    /\ g_idx <= Len(g_articles)
    /\ G_nodes' = add_node(G_nodes, g_articles[g_idx].url)
    /\ g_idx' = g_idx + 1
    /\ UNCHANGED <<g_articles, g_pc, g_link, G_edges, g_partition, g_communities,
                   g_result, envVars, mainVars, bridgeVars, tfidfVars, runVars, latexVars, entityVars, seedVars, crawlVars>>

NodesAdded ==
    /\ g_pc = "add_nodes"
    /\ g_idx > Len(g_articles)
    /\ g_pc' = "add_edges"
    /\ g_idx' = 1
    /\ g_link' = 1
    /\ UNCHANGED <<g_articles, G_nodes, G_edges, g_partition, g_communities,
                   g_result, envVars, mainVars, bridgeVars, tfidfVars, runVars, latexVars, entityVars, seedVars, crawlVars>>

\* for dest_url in article.get('related_entries', []):
\*     if dest_url in G: G.add_edge(source_url, dest_url)
AddEdge ==
    /\ g_pc = "add_edges"
    /\ g_idx <= Len(g_articles)
    /\ g_link <= Len(g_articles[g_idx].related_entries)
    /\ LET source_url == g_articles[g_idx].url
           dest_url == g_articles[g_idx].related_entries[g_link]
       IN  /\ InGraph(dest_url, G_nodes)
           /\ G_nodes' = add_edge_nodes(G_nodes, source_url, dest_url)
           /\ G_edges' = G_edges \cup {<<source_url, dest_url>>}
    /\ g_link' = g_link + 1
    /\ UNCHANGED <<g_articles, g_pc, g_idx, g_partition, g_communities,
                   g_result, envVars, mainVars, bridgeVars, tfidfVars, runVars, latexVars, entityVars, seedVars, crawlVars>>

SkipLink ==
    /\ g_pc = "add_edges"
    /\ g_idx <= Len(g_articles)
    /\ g_link <= Len(g_articles[g_idx].related_entries)
    /\ ~InGraph(g_articles[g_idx].related_entries[g_link], G_nodes)
    /\ g_link' = g_link + 1
    /\ UNCHANGED <<g_articles, g_pc, g_idx, G_nodes, G_edges, g_partition,
                   g_communities, g_result, envVars, mainVars, bridgeVars, tfidfVars, runVars, latexVars, entityVars, seedVars, crawlVars>>

\* the inner loop is exhausted: next article
NextArticle ==
    /\ g_pc = "add_edges"
    /\ g_idx <= Len(g_articles)
    /\ g_link > Len(g_articles[g_idx].related_entries)
    /\ g_idx' = g_idx + 1
    /\ g_link' = 1
    /\ UNCHANGED <<g_articles, g_pc, G_nodes, G_edges, g_partition, g_communities,
                   g_result, envVars, mainVars, bridgeVars, tfidfVars, runVars, latexVars, entityVars, seedVars, crawlVars>>

\* partition = community_louvain.best_partition(G.to_undirected())
DetectCommunities ==
    /\ g_pc = "add_edges"
    /\ g_idx > Len(g_articles)
    /\ g_partition' \in PartitionsOf(G_nodes)
    /\ g_pc' = "group"
    /\ g_idx' = 1
    /\ UNCHANGED <<g_articles, g_link, G_nodes, G_edges, g_communities,
                   g_result, envVars, mainVars, bridgeVars, tfidfVars, runVars, latexVars, entityVars, seedVars, crawlVars>>

\* for node, community_id in partition.items():
\*     communities.setdefault(community_id, []).append(node)
GroupNode ==
    /\ g_pc = "group"
    /\ g_idx <= Len(G_nodes)
    /\ g_communities' = SetdefaultAppend(g_communities, g_partition[G_nodes[g_idx]],
                                         G_nodes[g_idx])
    /\ g_idx' = g_idx + 1
    /\ UNCHANGED <<g_articles, g_pc, g_link, G_nodes, G_edges, g_partition,
                   g_result, envVars, mainVars, bridgeVars, tfidfVars, runVars, latexVars, entityVars, seedVars, crawlVars>>

\* return list(communities.values())
ReturnCommunities ==
    /\ g_pc = "group"
    /\ g_idx > Len(G_nodes)
    /\ g_result' = Values(g_communities)
    /\ g_pc' = "done"
    /\ UNCHANGED <<g_articles, g_idx, g_link, G_nodes, G_edges, g_partition,
                   g_communities, envVars, mainVars, bridgeVars, tfidfVars, runVars, latexVars, entityVars, seedVars, crawlVars>>

NextGraph ==
    \/ AddNode
    \/ NodesAdded
    \/ AddEdge
    \/ SkipLink
    \/ NextArticle
    \/ DetectCommunities
    \/ GroupNode
    \/ ReturnCommunities

SpecGraph == InitGraph /\ [][NextGraph]_vars

\* ------------------------------------------------------------------------
\* Properties of build_citation_communities
\* ------------------------------------------------------------------------
\* The places <<community, position>> of the returned list that hold url.
Places(url) ==
    UNION {{<<k, j>> : j \in {j \in DOMAIN g_result[k] : g_result[k][j] = url}} :
              k \in DOMAIN g_result}

\* C3: the returned list is a partition of the article URLs: every community
\* is non-empty, every article URL is in exactly one place of exactly one
\* community, and nothing but article URLs is in a community.
C3_ReturnsPartition ==
    g_pc = "done" =>
        /\ \A k \in DOMAIN g_result : g_result[k] # <<>>
        /\ UNION {Range(g_result[k]) : k \in DOMAIN g_result} = ArticleUrls
        /\ \A url \in ArticleUrls : Cardinality(Places(url)) = 1

\* Two articles share a community and a third, which no link touches, is
\* in a community of its own or in one with others.
C3_Witness ==
    /\ g_pc = "done"
    /\ Len(g_result) = 2
    /\ \E k \in DOMAIN g_result : Len(g_result[k]) >= 2
    /\ \E url \in ArticleUrls :
          /\ \A e \in G_edges : e[1] # url /\ e[2] # url
          /\ \E k \in DOMAIN g_result : g_result[k] = <<url>>

\* C4: no node is ever anything but an article URL, from the end of the
\* node loop on the node set is the set of article URLs, an edge runs only
\* from an article to an article URL it links to, and once the link loop is
\* over every link to an article URL is an edge.
C4_NoPhantomNodesOrEdges ==
    /\ Range(G_nodes) \subseteq ArticleUrls
    /\ g_pc # "add_nodes" => Range(G_nodes) = ArticleUrls
    /\ \A e \in G_edges :
          /\ e[1] \in ArticleUrls
          /\ e[2] \in ArticleUrls
          /\ \E k \in DOMAIN g_articles :
                g_articles[k].url = e[1] /\ e[2] \in Range(g_articles[k].related_entries)
    /\ g_pc \in {"group", "done"} =>
          \A k \in DOMAIN g_articles : \A d \in Range(g_articles[k].related_entries) :
              d \in ArticleUrls => <<g_articles[k].url, d>> \in G_edges

\* The run is over, an article links to a URL outside the corpus and to an
\* article, and the second link is an edge.
C4_Witness ==
    /\ g_pc = "done"
    /\ \E k \in DOMAIN g_articles :
          /\ ExternalUrl \in Range(g_articles[k].related_entries)
          /\ \E d \in Range(g_articles[k].related_entries) :
                <<g_articles[k].url, d>> \in G_edges

\* ========================================================================
\* find_bridge_articles(community_urls, all_article_keywords, core_concepts),
\* one loop iteration per step, on arguments of any kind
\* ========================================================================
NumBridgeUrls == 2            \* bound: keys of all_article_keywords

BridgeUrls == 1..NumBridgeUrls

BridgeTerms == {1, 2}

\* keyword lists: empty, one term, two terms (a term may repeat)
KeywordLists == {<<>>} \cup [1..1 -> BridgeTerms] \cup [1..2 -> BridgeTerms]

InitBridge ==
    /\ fb_variant \in {"lexical", "ner"}
    /\ fb_community_urls \in SUBSET BridgeUrls
    /\ fb_items \in {[url \in BridgeUrls |-> <<url, kws[url]>>] :
                        kws \in [BridgeUrls -> KeywordLists]}
    /\ fb_core_concepts \in SUBSET BridgeTerms
    /\ fb_pc = "loop"
    /\ fb_k = 1
    /\ fb_acc = [bridge_articles |-> <<>>, raised |-> FALSE]
    /\ MainIdle /\ GraphIdle /\ TfidfIdle /\ RunIdle /\ LatexIdle /\ EntityIdle /\ SeedIdle /\ CrawlIdle

\* for url, keywords in all_article_keywords.items(): ...
BridgeIterate ==
    /\ fb_pc = "loop"
    /\ fb_k <= Len(fb_items)
    /\ fb_acc' = BridgeStep(fb_acc, fb_items[fb_k][1], fb_items[fb_k][2],
                            fb_community_urls, fb_core_concepts,
                            similarity_threshold(fb_variant))
    /\ fb_pc' = IF fb_acc'.raised THEN "raised" ELSE fb_pc
    /\ fb_k' = fb_k + 1
    /\ UNCHANGED <<fb_variant, fb_community_urls, fb_items, fb_core_concepts,
                   envVars, mainVars, graphVars, tfidfVars, runVars, latexVars, entityVars, seedVars, crawlVars>>

\* return bridge_articles
BridgeReturn ==
    /\ fb_pc = "loop"
    /\ fb_k > Len(fb_items)
    /\ fb_pc' = "done"
    /\ UNCHANGED <<fb_variant, fb_community_urls, fb_items, fb_core_concepts,
                   fb_k, fb_acc, envVars, mainVars, graphVars, tfidfVars, runVars, latexVars, entityVars, seedVars, crawlVars>>

NextBridge ==
    \/ BridgeIterate
    \/ BridgeReturn

SpecBridge == InitBridge /\ [][NextBridge]_vars

\* C5: find_bridge_articles never divides by an empty keyword set (it raises
\* nowhere), and no article whose keyword list is empty is among the bridges.
C5_EmptyFingerprintNeverBridge ==
    /\ ~fb_acc.raised
    /\ fb_pc # "raised"
    /\ \A k \in DOMAIN fb_items :
          fb_items[k][2] = <<>> => fb_items[k][1] \notin Range(fb_acc.bridge_articles)

\* The function returned after passing an outside article with no keywords
\* and marking another article a bridge.
C5_Witness ==
    /\ fb_pc = "done"
    /\ fb_acc.bridge_articles # <<>>
    /\ \E k \in DOMAIN fb_items :
          fb_items[k][2] = <<>> /\ fb_items[k][1] \notin fb_community_urls

\* ========================================================================
\* calculate_tfidf_fingerprints(articles, top_n), one article per step
\* ========================================================================
NumVocab == 3                 \* bound: terms of the fitted vocabulary
MaxTopN == 2                  \* bound: largest top_n the function is called with

Vocabulary == 1..NumVocab     \* column indices; feature_names[k] is term k

Weights == {0, 1, 2}          \* tf-idf weights, 0 for a term not in the article

TfidfUrls == {1, 2}           \* the articles; article k has url k and row k

Nonzero(row) == {t \in DOMAIN row : row[t] > 0}

\* the elements of a set of numbers in increasing order
Ascending(S) ==
    Table([k \in 1..Cardinality(S) |->
            CHOOSE x \in S : Cardinality({y \in S : y < x}) = k - 1])

IndexOrders(n) ==
    {p \in [1..n -> 1..n] : \A j, k \in 1..n : p[j] = p[k] => j = k}

\* a[-top_n:]
LastN(a, top_n) ==
    IF top_n >= Len(a) THEN a ELSE SubSeq(a, Len(a) - top_n + 1, Len(a))

\* Mutant of TopSlice: a[:top_n]
FirstN(a, top_n) ==
    IF top_n >= Len(a) THEN a ELSE SubSeq(a, 1, top_n)

\* the slice both variants take of the index array
TopSlice(a, top_n) == LastN(a, top_n)

\* fe_no_spacy.py: row.argsort()[-top_n:] on the dense row.  argsort orders
\* the column indices by weight, lowest first; the order among equal
\* weights is the sort's own.
LexicalTopIndices(row, top_n) ==
    {TopSlice(a, top_n) :
        a \in {p \in IndexOrders(Len(row)) :
                  \A k \in 1..(Len(row) - 1) : row[p[k]] <= row[p[k + 1]]}}

\* feature_engineer.py: the sparse row holds the nonzero weights (row.data)
\* and their columns (row.indices, increasing).  np.argpartition(data, -top_n)
\* puts the element of rank nnz - top_n in its sorted place, smaller ones
\* before it and larger ones after it, in no further order.
NerTopIndices(row, top_n) ==
    LET indices == Ascending(Nonzero(row))
        nnz == Len(indices)
        kth == nnz - top_n + 1
    IN  IF nnz > top_n
        THEN {Table([k \in 1..top_n |-> indices[TopSlice(a, top_n)[k]]]) :
                a \in {p \in IndexOrders(nnz) :
                          /\ \A j \in 1..(kth - 1) :
                                row[indices[p[j]]] <= row[indices[p[kth]]]
                          /\ \A j \in (kth + 1)..nnz :
                                row[indices[p[j]]] >= row[indices[p[kth]]]}}
        ELSE IF nnz > 0 THEN {indices}
        ELSE {<<>>}

\* top_keywords = feature_names[...].tolist() for one row
TopKeywordsOf(v, row, top_n) ==
    IF v = "lexical" THEN LexicalTopIndices(row, top_n)
    ELSE NerTopIndices(row, top_n)

InitTfidf ==
    /\ t_variant \in {"lexical", "ner"}
    /\ t_top_n \in 1..MaxTopN
    /\ tfidf_matrix \in [TfidfUrls -> [Vocabulary -> Weights]]
    /\ t_pc = "loop"
    /\ t_idx = 1
    /\ t_article_keywords = <<>>
    /\ MainIdle /\ GraphIdle /\ BridgeIdle /\ RunIdle /\ LatexIdle /\ EntityIdle /\ SeedIdle /\ CrawlIdle

\* for i, url in enumerate(urls): ... article_keywords[url] = top_keywords
FingerprintRow ==
    /\ t_pc = "loop"
    /\ t_idx \in TfidfUrls
    /\ \E top_keywords \in TopKeywordsOf(t_variant, tfidf_matrix[t_idx], t_top_n) :
          t_article_keywords' =
              [url \in DOMAIN t_article_keywords \cup {t_idx} |->
                  IF url = t_idx THEN top_keywords ELSE t_article_keywords[url]]
    /\ t_idx' = t_idx + 1
    /\ UNCHANGED <<t_variant, t_top_n, tfidf_matrix, t_pc,
                   envVars, mainVars, graphVars, bridgeVars, runVars, latexVars, entityVars, seedVars, crawlVars>>

\* return article_keywords
ReturnKeywords ==
    /\ t_pc = "loop"
    /\ t_idx \notin TfidfUrls
    /\ t_pc' = "done"
    /\ UNCHANGED <<t_variant, t_top_n, tfidf_matrix, t_idx, t_article_keywords,
                   envVars, mainVars, graphVars, bridgeVars, runVars, latexVars, entityVars, seedVars, crawlVars>>

NextTfidf ==
    \/ FingerprintRow
    \/ ReturnKeywords

SpecTfidf == InitTfidf /\ [][NextTfidf]_vars

\* ------------------------------------------------------------------------
\* Properties of calculate_tfidf_fingerprints
\* ------------------------------------------------------------------------
Fingerprinted == DOMAIN t_article_keywords

\* C8 (as the claim states it, of both variants): a fingerprint has at most
\* top_n terms, none of weight zero; an article with fewer than top_n
\* nonzero-weight terms gets exactly those; an article with none gets [].
C8_Original ==
    \A url \in Fingerprinted :
        LET fp == t_article_keywords[url]
            row == tfidf_matrix[url]
        IN  /\ Len(fp) <= t_top_n
            /\ \A k \in DOMAIN fp : row[fp[k]] > 0
            /\ Cardinality(Nonzero(row)) < t_top_n =>
                  Range(fp) = Nonzero(row) /\ Len(fp) = Cardinality(Nonzero(row))
            /\ Nonzero(row) = {} => fp = <<>>

MaxArticleFiles == 7          \* bound: article files in the input directory

MinDf == 5                    \* TfidfVectorizer(min_df=5)
MaxDfTenths == 8              \* TfidfVectorizer(max_df=0.8)

\* A file of the input directory: a .json file holding an article, a .json
\* file that does not decode, or a file without the .json suffix.
FileKinds == {"article", "bad_json", "other"}

\* os.listdir(processed_dir): possibly a file that does not decode, then
\* the article files, then possibly a file of another kind.
FileLists ==
    {bad \o [k \in 1..n |-> "article"] \o other :
        bad \in {<<>>, <<"bad_json">>},
        n \in 0..MaxArticleFiles,
        other \in {<<>>, <<"other">>}}

WriteOutcomes == {"ok", "open_fails", "dump_fails"}

OutputDir == "output_dir"

\* The artifacts in the order main() produces them.
Artifacts(v) ==
    IF v = "lexical"
    THEN <<FingerprintFile(v), CommunityFile(v), ClusterFile(v)>>
    ELSE <<FingerprintFile(v), CommunityFile(v), EntityFile(v), ClusterFile(v)>>

\* load_all_articles(processed_dir): the articles (named by their file's
\* position) and the records it logs.
load_all_articles(exists, files) ==
    IF ~exists
    THEN [articles |-> <<>>, log |-> <<<<"error", "Directory not found">>>>]
    ELSE LET decoded == SelectSeq([k \in DOMAIN files |-> k],
                                  LAMBDA k : files[k] = "article")
             bad == SelectSeq([k \in DOMAIN files |-> k],
                              LAMBDA k : files[k] = "bad_json")
         IN  [articles |-> decoded,
              log |-> Table([k \in DOMAIN bad |-> <<"warning", "Could not decode", bad[k]>>])]

\* Mutant of save_json: no try/except around the write.
save_json_unguarded(data, filepath, outcome, created, log) ==
    IF outcome = "ok"
    THEN [created |-> (filepath :> data) @@ created,
          log |-> Append(log, <<"info", "saved", filepath>>), raised |-> FALSE]
    ELSE [created |-> IF outcome = "dump_fails"
                      THEN (filepath :> "partial") @@ created ELSE created,
          log |-> log, raised |-> TRUE]

\* save_json(data, filepath): open(filepath, 'w') creates the file, json.dump
\* fills it; an Exception from either is logged and swallowed.
save_json(data, filepath, outcome, created, log) ==
    IF outcome = "ok"
    THEN [created |-> (filepath :> data) @@ created,
          log |-> Append(log, <<"info", "saved", filepath>>), raised |-> FALSE]
    ELSE [created |-> IF outcome = "dump_fails"
                      THEN (filepath :> "partial") @@ created ELSE created,
          log |-> Append(log, <<"error", "Failed to save", filepath>>),
          raised |-> FALSE]

\* The value a stage computes: a modality's result depends on the articles,
\* the clusters on the results main() holds for the modalities before it.
StageResult(v, stage, arts, results) ==
    IF Artifacts(v)[stage] = ClusterFile(v)
    THEN <<"clusters", Table([k \in 1..(stage - 1) |-> results[Artifacts(v)[k]]])>>
    ELSE <<Artifacts(v)[stage], arts>>

\* vectorizer.fit_transform(corpus) raises ValueError when max_df of the
\* documents is less than min_df documents, and when no term is in at least
\* min_df documents and at most max_df of them.
FitRaises(arts, terms_remain) ==
    \/ MaxDfTenths * Len(arts) < 10 * MinDf
    \/ ~terms_remain

InitRun ==
    /\ r_variant \in {"lexical", "ner"}
    /\ r_input_exists \in BOOLEAN
    /\ r_input_files \in (IF r_input_exists THEN FileLists ELSE {<<>>})
    /\ r_terms_remain \in BOOLEAN
    /\ r_output_exists \in BOOLEAN
    /\ r_write_outcome \in [Range(Artifacts(r_variant)) -> WriteOutcomes]
    /\ r_pc = "makedirs"
    /\ r_stage = 0
    /\ r_articles = <<>>
    /\ r_results = <<>>
    /\ r_created = <<>>
    /\ r_attempts = <<>>
    /\ r_log = <<>>
    /\ MainIdle /\ GraphIdle /\ BridgeIdle /\ TfidfIdle /\ LatexIdle /\ EntityIdle /\ SeedIdle /\ CrawlIdle

\* os.makedirs(output_dir, exist_ok=True)
RunMakedirs ==
    /\ r_pc = "makedirs"
    /\ r_created' = IF r_output_exists THEN r_created
                    ELSE (OutputDir :> "directory") @@ r_created
    /\ r_pc' = "load"
    /\ UNCHANGED <<r_variant, r_input_exists, r_input_files, r_output_exists,
                   r_terms_remain,
                   r_write_outcome, r_stage, r_articles, r_results, r_attempts,
                   r_log, envVars, mainVars, graphVars, bridgeVars, tfidfVars, latexVars, entityVars, seedVars, crawlVars>>

\* articles = load_all_articles(args.input_dir); if not articles: return
RunLoad ==
    /\ r_pc = "load"
    /\ LET loaded == load_all_articles(r_input_exists, r_input_files)
       IN  /\ r_articles' = loaded.articles
           /\ r_log' = r_log \o loaded.log
           /\ r_pc' = IF loaded.articles = <<>> THEN "halted" ELSE "compute"
           /\ r_stage' = IF loaded.articles = <<>> THEN r_stage ELSE 1
    /\ UNCHANGED <<r_variant, r_input_exists, r_input_files, r_output_exists,
                   r_terms_remain,
                   r_write_outcome, r_results, r_created, r_attempts,
                   envVars, mainVars, graphVars, bridgeVars, tfidfVars, latexVars, entityVars, seedVars, crawlVars>>

\* x = calculate_tfidf_fingerprints(articles) / build_citation_communities /
\* extract_entities_and_concepts / the synthesis loop
RunStage ==
    /\ r_pc = "compute"
    /\ IF r_stage = 1 /\ FitRaises(r_articles, r_terms_remain)
       THEN /\ r_pc' = "raised_in_fit"
            /\ UNCHANGED r_results
       ELSE /\ r_results' = (Artifacts(r_variant)[r_stage] :>
                               StageResult(r_variant, r_stage, r_articles, r_results))
                           @@ r_results
            /\ r_pc' = "save"
    /\ UNCHANGED <<r_variant, r_input_exists, r_input_files, r_output_exists,
                   r_terms_remain,
                   r_write_outcome, r_stage, r_articles, r_created, r_attempts,
                   r_log, envVars, mainVars, graphVars, bridgeVars, tfidfVars, latexVars, entityVars, seedVars, crawlVars>>

\* save_json(x, os.path.join(output_dir, name))
RunSave ==
    /\ r_pc = "save"
    /\ LET filepath == Artifacts(r_variant)[r_stage]
           done == save_json(r_results[filepath], filepath,
                             r_write_outcome[filepath], r_created, r_log)
       IN  /\ r_attempts' = Append(r_attempts, filepath)
           /\ r_created' = done.created
           /\ r_log' = done.log
           /\ r_pc' = IF done.raised THEN "raised_in_save"
                      ELSE IF r_stage = Len(Artifacts(r_variant)) THEN "done"
                      ELSE "compute"
           /\ r_stage' = IF done.raised \/ r_stage = Len(Artifacts(r_variant))
                         THEN r_stage ELSE r_stage + 1
    /\ UNCHANGED <<r_variant, r_input_exists, r_input_files, r_output_exists,
                   r_terms_remain,
                   r_write_outcome, r_articles, r_results,
                   envVars, mainVars, graphVars, bridgeVars, tfidfVars, latexVars, entityVars, seedVars, crawlVars>>

NextRun ==
    \/ RunMakedirs
    \/ RunLoad
    \/ RunStage
    \/ RunSave

SpecRun == InitRun /\ [][NextRun]_vars

\* ------------------------------------------------------------------------
\* Properties of the run against the file system
\* ------------------------------------------------------------------------
\* The results main() must hold after `stage` stages, whatever was written.
RECURSIVE ExpectedResults(_, _, _)
ExpectedResults(v, stage, arts) ==
    IF stage = 0 THEN <<>>
    ELSE LET before == ExpectedResults(v, stage - 1, arts)
         IN  (Artifacts(v)[stage] :> StageResult(v, stage, arts, before)) @@ before

\* C11: a failing write never stops the run: save_json raises nothing, the
\* save_json calls made so far are the artifacts in their fixed order, a
\* finished run has called save_json for every artifact of its variant, every
\* failed write is logged as an error, and the results main() holds are
\* those of a run in which every write succeeds.
C11_WriteFailureNeverStopsRun ==
    /\ r_pc # "raised_in_save"
    /\ r_attempts = SubSeq(Artifacts(r_variant), 1, Len(r_attempts))
    /\ r_pc = "done" => r_attempts = Artifacts(r_variant)
    /\ r_pc \in {"compute", "save", "done"} =>
          Len(r_attempts) = (IF r_pc = "done" THEN r_stage ELSE r_stage - 1)
    /\ \A k \in DOMAIN r_attempts :
          r_write_outcome[r_attempts[k]] # "ok" =>
              /\ <<"error", "Failed to save", r_attempts[k]>> \in Range(r_log)
              /\ <<"info", "saved", r_attempts[k]>> \notin Range(r_log)
    /\ r_results = ExpectedResults(r_variant, Cardinality(DOMAIN r_results), r_articles)

\* The NER run is over; the first and the third write failed, the second
\* and the last were made and succeeded.
C11_Witness ==
    /\ r_pc = "done"
    /\ r_variant = "ner"
    /\ r_write_outcome[FingerprintFile(r_variant)] = "open_fails"
    /\ r_write_outcome[EntityFile(r_variant)] = "dump_fails"
    /\ CommunityFile(r_variant) \in DOMAIN r_created
    /\ ClusterFile(r_variant) \in DOMAIN r_created
    /\ r_created[ClusterFile(r_variant)] =
          ExpectedResults(r_variant, 4, r_articles)[ClusterFile(r_variant)]

\* C12 (as the claim states it): with no input directory, the run raises
\* nothing and creates nothing on disk, neither an artifact file nor an
\* output location, and once it has halted load_all_articles has logged the
\* error and returned the empty list.
C12_Original ==
    ~r_input_exists =>
        /\ r_pc \notin {"raised_in_fit", "raised_in_save"}
        /\ DOMAIN r_created = {}
        /\ r_pc \notin {"compute", "save", "done"}
        /\ r_pc = "halted" =>
              /\ r_articles = <<>>
              /\ <<"error", "Directory not found">> \in Range(r_log)
              /\ r_attempts = <<>>

\* ========================================================================
\* LatexProcessingPipeline.process_item(item, spider), one match per step
\* ========================================================================
NumExpressions == 2           \* bound: distinct math expressions of a body
MaxBodyLen == 4               \* bound: tokens of a body

\* A body is a sequence of tokens: a stretch of plain text, or a span the
\* pattern \(...\) | \[...\] matches, named by its expression string.
PlainText == <<"text", 0>>

Expressions == {<<"expr", e>> : e \in 1..NumExpressions}

Bodies == UNION {[1..n -> {PlainText} \cup Expressions] : n \in 0..MaxBodyLen}

\* f"[MATH_{expr_id}]"
Placeholder(expr_id) == <<"MATH", expr_id>>

Lookup(d, key) == d[CHOOSE k \in DOMAIN d : d[k][1] = key][2]

\* Mutant of latex_replacer: every match gets a new id.
latex_replacer_fresh(uniq, to_id, expression) ==
    [unique_expressions |-> Append(uniq, expression),
     expression_to_id |-> Append(to_id, <<expression, Len(uniq)>>),
     placeholder |-> Placeholder(Len(uniq))]

\* latex_replacer(match), with expression = match.group(0); expression_to_id
\* is the dict's <<key, value>> items.
latex_replacer(uniq, to_id, expression) ==
    IF \E k \in DOMAIN to_id : to_id[k][1] = expression
    THEN [unique_expressions |-> uniq,
          expression_to_id |-> to_id,
          placeholder |-> Placeholder(Lookup(to_id, expression))]
    ELSE [unique_expressions |-> Append(uniq, expression),
          expression_to_id |-> Append(to_id, <<expression, Len(uniq)>>),
          placeholder |-> Placeholder(Len(uniq))]

\* del adapter[field]
DelField(item, field) == [f \in DOMAIN item \ {field} |-> item[f]]

\* adapter[field] = value
SetField(item, field, value) ==
    [f \in DOMAIN item \cup {field} |-> IF f = field THEN value ELSE item[f]]

\* The items the stage is given: with a body, with an empty body, or with
\* no body_text field (the page had no #main-text).
LatexItems ==
    {SetField(<<>>, "body_text", b) : b \in Bodies} \cup {<<>>}

\* raw_text = adapter.get('body_text'); `not raw_text`: None or ''
NoRawText(item) == Get(item, "body_text", <<>>) = <<>>

InitLatex ==
    /\ x_item \in {SetField(it, "title", "t") : it \in LatexItems}
    /\ x_pc = "start"
    /\ x_pos = 0
    /\ unique_expressions = <<>>
    /\ expression_to_id = <<>>
    /\ x_out = <<>>
    /\ MainIdle /\ GraphIdle /\ BridgeIdle /\ TfidfIdle /\ RunIdle /\ EntityIdle /\ SeedIdle /\ CrawlIdle

\* raw_text = adapter.get('body_text'); if not raw_text: ... return item
LatexNoText ==
    /\ x_pc = "start"
    /\ NoRawText(x_item)
    /\ x_item' = DelField(SetField(SetField(x_item, "text_with_placeholders", <<>>),
                                   "math_expressions", <<>>), "body_text")
    /\ x_pc' = "done"
    /\ UNCHANGED <<x_pos, unique_expressions, expression_to_id, x_out,
                   envVars, mainVars, graphVars, bridgeVars, tfidfVars, runVars, entityVars, seedVars, crawlVars>>

\* unique_expressions = []; expression_to_id = {}; ... latex_pattern.sub(
LatexBegin ==
    /\ x_pc = "start"
    /\ ~NoRawText(x_item)
    /\ x_pc' = "sub"
    /\ UNCHANGED <<x_item, x_pos, unique_expressions, expression_to_id, x_out,
                   envVars, mainVars, graphVars, bridgeVars, tfidfVars, runVars, entityVars, seedVars, crawlVars>>

\* sub() copies the text between matches
LatexCopy ==
    /\ x_pc = "sub"
    /\ x_pos < Len(x_item["body_text"])
    /\ x_item["body_text"][x_pos + 1] = PlainText
    /\ x_out' = Append(x_out, PlainText)
    /\ x_pos' = x_pos + 1
    /\ UNCHANGED <<x_item, x_pc, unique_expressions, expression_to_id,
                   envVars, mainVars, graphVars, bridgeVars, tfidfVars, runVars, entityVars, seedVars, crawlVars>>

\* sub() calls latex_replacer on the next match and copies what it returns
LatexReplace ==
    /\ x_pc = "sub"
    /\ x_pos < Len(x_item["body_text"])
    /\ x_item["body_text"][x_pos + 1] # PlainText
    /\ LET r == latex_replacer(unique_expressions, expression_to_id,
                               x_item["body_text"][x_pos + 1])
       IN  /\ unique_expressions' = r.unique_expressions
           /\ expression_to_id' = r.expression_to_id
           /\ x_out' = Append(x_out, r.placeholder)
    /\ x_pos' = x_pos + 1
    /\ UNCHANGED <<x_item, x_pc,
                   envVars, mainVars, graphVars, bridgeVars, tfidfVars, runVars, entityVars, seedVars, crawlVars>>

\* adapter['text_with_placeholders'] = ...; adapter['math_expressions'] = ...;
\* del adapter['body_text']; return item
LatexStore ==
    /\ x_pc = "sub"
    /\ x_pos = Len(x_item["body_text"])
    /\ x_item' = DelField(SetField(SetField(x_item, "text_with_placeholders", x_out),
                                   "math_expressions", unique_expressions), "body_text")
    /\ x_pc' = "done"
    /\ UNCHANGED <<x_pos, unique_expressions, expression_to_id, x_out,
                   envVars, mainVars, graphVars, bridgeVars, tfidfVars, runVars, entityVars, seedVars, crawlVars>>

NextLatex ==
    \/ LatexNoText
    \/ LatexBegin
    \/ LatexCopy
    \/ LatexReplace
    \/ LatexStore

SpecLatex == InitLatex /\ [][NextLatex]_vars

\* ------------------------------------------------------------------------
\* Properties of LatexProcessingPipeline.process_item
\* ------------------------------------------------------------------------
\* The positions of the body that sub() has passed and that hold a match.
Replaced == {k \in 1..x_pos : x_item["body_text"][k] # PlainText}

\* The expressions whose first occurrence is before position k.
SeenBefore(k) ==
    {x_item["body_text"][j] : j \in {j \in 1..(k - 1) : x_item["body_text"][j] # PlainText}}

\* The first position that holds the expression of position k.
FirstOccurrence(k) ==
    CHOOSE j \in 1..k :
        /\ x_item["body_text"][j] = x_item["body_text"][k]
        /\ \A h \in 1..(j - 1) : x_item["body_text"][h] # x_item["body_text"][k]

\* C13: while sub() runs, every match passed so far was replaced by a
\* placeholder [MATH_id]; equal expressions got equal ids and different
\* expressions different ids; an expression's id is the number of different
\* expressions that occur before its first occurrence (0, 1, 2, ...); and
\* unique_expressions[id] is the expression replaced.  The stored item carries
\* that text and that list.
C13_PlaceholderIdsStable ==
    /\ x_pc = "sub" =>
          /\ Len(x_out) = x_pos
          /\ \A k \in 1..x_pos : k \notin Replaced => x_out[k] = PlainText
          /\ \A k \in Replaced :
                /\ x_out[k][1] = "MATH"
                /\ x_out[k][2] = Cardinality(SeenBefore(FirstOccurrence(k)))
                /\ x_out[k][2] + 1 \in DOMAIN unique_expressions
                /\ unique_expressions[x_out[k][2] + 1] = x_item["body_text"][k]
          /\ \A j, k \in Replaced :
                (x_item["body_text"][j] = x_item["body_text"][k]) <=> (x_out[j] = x_out[k])
          /\ Len(unique_expressions) = Cardinality(SeenBefore(x_pos + 1))
    /\ x_pc = "done" /\ x_out # <<>> =>
          /\ x_item["text_with_placeholders"] = x_out
          /\ x_item["math_expressions"] = unique_expressions

\* The stored text is: first expression, second expression, text, first
\* expression again.
C13_Witness ==
    /\ x_pc = "done"
    /\ Len(x_out) = 4
    /\ x_out[1] = Placeholder(0)
    /\ x_out[2] = Placeholder(1)
    /\ x_out[3] = PlainText
    /\ x_out[4] = Placeholder(0)
    /\ Len(x_item["math_expressions"]) = 2

\* ========================================================================
\* extract_entities_and_concepts(articles): nlp.pipe's workers finish their
\* batches in any order; the loop stores one record per document
\* ========================================================================
NumEntityArticles == 101      \* bound: articles of the corpus
MaxProcesses == 2             \* bound: worker processes (cores of the machine)

BatchSize == 50               \* nlp.pipe(..., batch_size=50, ...)

\* The corpora: every article its own text, or neighbours sharing a text.
EntityCorpora ==
    {[k \in 1..NumEntityArticles |-> [url |-> k, text_with_placeholders |-> 1000 + k]],
     [k \in 1..NumEntityArticles |-> [url |-> k, text_with_placeholders |-> 1000 + (k \div 2)]]}

\* The Doc the pipeline makes of a text: its entities and noun chunks
\* (<<words, text>>).  Which ones is the language model's business; a Doc
\* depends on its text alone.
Doc(text) ==
    [ents |-> {<<"PERSON", text>>, <<"ORG", text>>}
                \cup (IF text % 2 = 0 THEN {<<"WORK_OF_ART", text>>} ELSE {}),
     noun_chunks |-> {<<1, text>>} \cup (IF text % 3 = 0 THEN {} ELSE {<<2, text>>})]

\* list(set(...)) of a set of at most one element
ListOfSet(S) == IF S = {} THEN <<>> ELSE <<CHOOSE x \in S : TRUE>>

\* the record built from one doc
EntityRecord(doc) ==
    [people |-> ListOfSet({ent[2] : ent \in {e \in doc.ents : e[1] = "PERSON"}}),
     works |-> ListOfSet({ent[2] : ent \in {e \in doc.ents : e[1] = "WORK_OF_ART"}}),
     concepts |-> ListOfSet({chunk[2] : chunk \in {c \in doc.noun_chunks : c[1] > 1}})]

\* nlp.pipe cuts the texts into batches of batch_size in order and deals
\* them to its workers in turn.
NumBatches(n) == (n + BatchSize - 1) \div BatchSize

BatchOf(k) == ((k - 1) \div BatchSize) + 1

WorkerOf(b, n_process) == ((b - 1) % n_process) + 1

\* Mutant of UrlAt: the index is taken one too far.
UrlAtNext(urls, idx) == urls[Min(idx + 2, Len(urls))]

\* url = urls[i], i counting from 0
UrlAt(urls, idx) == urls[idx + 1]

InitEntities ==
    /\ e_articles \in EntityCorpora
    /\ e_available \in BOOLEAN
    /\ e_n_process \in 1..MaxProcesses
    /\ e_finished = {}
    /\ e_pc = "load"
    /\ e_i = 0
    /\ e_article_entities = EmptyMapping
    /\ MainIdle /\ GraphIdle /\ BridgeIdle /\ TfidfIdle /\ RunIdle /\ LatexIdle /\ SeedIdle /\ CrawlIdle

\* nlp = spacy.load("en_core_web_lg"); except OSError: return {}
EntityLoad ==
    /\ e_pc = "load"
    /\ e_pc' = IF e_available THEN "loop" ELSE "done"
    /\ UNCHANGED <<e_articles, e_available, e_n_process, e_finished, e_i,
                   e_article_entities,
                   envVars, mainVars, graphVars, bridgeVars, tfidfVars, runVars,
                   latexVars, seedVars, crawlVars>>

\* a worker finishes the next of its batches
WorkerFinish ==
    /\ e_pc = "loop"
    /\ \E b \in 1..NumBatches(Len(e_articles)) \ e_finished :
          /\ \A a \in 1..(b - 1) :
                WorkerOf(a, e_n_process) = WorkerOf(b, e_n_process) => a \in e_finished
          /\ e_finished' = e_finished \cup {b}
    /\ UNCHANGED <<e_articles, e_available, e_n_process, e_pc, e_i,
                   e_article_entities,
                   envVars, mainVars, graphVars, bridgeVars, tfidfVars, runVars,
                   latexVars, seedVars, crawlVars>>

\* for i, doc in enumerate(docs_pipe): the pipe yields the docs in the order
\* of the texts, each once its batch is finished; the body stores the record
EntityStore ==
    /\ e_pc = "loop"
    /\ e_i < Len(e_articles)
    /\ BatchOf(e_i + 1) \in e_finished
    /\ LET urls == [k \in DOMAIN e_articles |-> e_articles[k].url]
           doc == Doc(e_articles[e_i + 1].text_with_placeholders)
           url == UrlAt(urls, e_i)
       IN  e_article_entities' =
              Table([u \in DOMAIN e_article_entities \cup {url} |->
                        IF u = url THEN EntityRecord(doc) ELSE e_article_entities[u]])
    /\ e_i' = e_i + 1
    /\ UNCHANGED <<e_articles, e_available, e_n_process, e_finished, e_pc,
                   envVars, mainVars, graphVars, bridgeVars, tfidfVars, runVars,
                   latexVars, seedVars, crawlVars>>

\* return article_entities
EntityReturn ==
    /\ e_pc = "loop"
    /\ e_i = Len(e_articles)
    /\ e_pc' = "done"
    /\ UNCHANGED <<e_articles, e_available, e_n_process, e_finished, e_i,
                   e_article_entities,
                   envVars, mainVars, graphVars, bridgeVars, tfidfVars, runVars,
                   latexVars, seedVars, crawlVars>>

NextEntities ==
    \/ EntityLoad
    \/ WorkerFinish
    \/ EntityStore
    \/ EntityReturn

SpecEntities == InitEntities /\ [][NextEntities]_vars

\* ------------------------------------------------------------------------
\* Properties of extract_entities_and_concepts
\* ------------------------------------------------------------------------
\* C14: whatever the number of workers and the order they finish in, the
\* record under a URL is the one built from the Doc of the article with that
\* URL, the URLs with a record are those of the first i articles, and when
\* the function returns with the language model loaded every article's URL
\* has a record.
C14_RecordsJoinedByArticle ==
    /\ \A k \in DOMAIN e_articles :
          e_articles[k].url \in DOMAIN e_article_entities =>
              e_article_entities[e_articles[k].url] =
                  EntityRecord(Doc(e_articles[k].text_with_placeholders))
    /\ DOMAIN e_article_entities = {e_articles[k].url : k \in 1..e_i}
    /\ e_pc = "done" /\ e_available =>
          DOMAIN e_article_entities = {e_articles[k].url : k \in DOMAIN e_articles}

\* The first batch is stored; the third batch was finished before the second.
C14_Witness ==
    /\ e_pc = "loop"
    /\ e_i = BatchSize
    /\ e_finished = {1, 3}
    /\ e_article_entities[BatchSize] # e_article_entities[BatchSize - 1]

\* ========================================================================
\* Two runs of main() over the same corpus: the partition step and the
\* cluster ids and memberships that follow from it
\* ========================================================================
NumSeedArticles == 6          \* bound: articles of the corpus
NumRandomStates == 2          \* bound: states the random generator can start in

Runs == {1, 2}

RandomStates == 1..NumRandomStates

\* Labelings best_partition can return for the corpus's graph: the first k
\* nodes in community 0 and the others in community 1.
SeedLabelings ==
    {[u \in 1..NumSeedArticles |-> IF u <= k THEN 0 ELSE 1] :
        k \in {1, MinClusterSize, NumSeedArticles}}

\* random_state=None: best_partition takes numpy's global generator, which
\* each process seeds from the operating system.  main() has no argument
\* for a seed and passes none, so the generator's state is any.
RandomStateOf(run_seed, os_entropy) == os_entropy

\* the cluster ids and memberships main() makes of a partition
ClusterMemberships(communities) ==
    LET kept == SelectSeq([k \in DOMAIN communities |-> k],
                          LAMBDA k : ~TooSmall(communities[k]))
    IN  Table([j \in DOMAIN kept |->
                 [cluster_id |-> ClusterId(kept[j] - 1),
                  core_articles |-> communities[kept[j]]]])

InitSeed ==
    /\ d_articles = [k \in 1..NumSeedArticles |-> k]
    /\ d_seed \in RandomStates
    /\ d_louvain \in [RandomStates -> SeedLabelings]
    /\ d_pc = [r \in Runs |-> "start"]
    /\ d_random_state = [r \in Runs |-> 0]
    /\ d_partition = [r \in Runs |-> <<>>]
    /\ d_clusters = [r \in Runs |-> <<>>]
    /\ MainIdle /\ GraphIdle /\ BridgeIdle /\ TfidfIdle /\ RunIdle /\ LatexIdle /\ CrawlIdle
    /\ EntityIdle

\* the process of a run starts: its generator is seeded
SeedStart(r) ==
    /\ d_pc[r] = "start"
    /\ \E os_entropy \in RandomStates :
          d_random_state' = [d_random_state EXCEPT ![r] = RandomStateOf(d_seed, os_entropy)]
    /\ d_pc' = [d_pc EXCEPT ![r] = "partition"]
    /\ UNCHANGED <<d_articles, d_seed, d_louvain, d_partition, d_clusters,
                   envVars, mainVars, graphVars, bridgeVars, tfidfVars, runVars,
                   latexVars, entityVars, crawlVars>>

\* partition = community_louvain.best_partition(G.to_undirected())
SeedPartition(r) ==
    /\ d_pc[r] = "partition"
    /\ d_partition' = [d_partition EXCEPT ![r] = d_louvain[d_random_state[r]]]
    /\ d_pc' = [d_pc EXCEPT ![r] = "synthesis"]
    /\ UNCHANGED <<d_articles, d_seed, d_louvain, d_random_state, d_clusters,
                   envVars, mainVars, graphVars, bridgeVars, tfidfVars, runVars,
                   latexVars, entityVars, crawlVars>>

\* the grouping of build_citation_communities and the synthesis loop
SeedSynthesize(r) ==
    /\ d_pc[r] = "synthesis"
    /\ d_clusters' = [d_clusters EXCEPT ![r] =
            ClusterMemberships(GroupCommunities(d_articles, d_partition[r]))]
    /\ d_pc' = [d_pc EXCEPT ![r] = "done"]
    /\ UNCHANGED <<d_articles, d_seed, d_louvain, d_random_state, d_partition,
                   envVars, mainVars, graphVars, bridgeVars, tfidfVars, runVars,
                   latexVars, entityVars, crawlVars>>

NextSeed ==
    \/ \E r \in Runs : SeedStart(r)
    \/ \E r \in Runs : SeedPartition(r)
    \/ \E r \in Runs : SeedSynthesize(r)

SpecSeed == InitSeed /\ [][NextSeed]_vars

\* C15 (as the claim states it): the two runs are over the same corpus with
\* the same seed asked for, and once both are over their cluster ids and
\* memberships are identical.
C15_Original ==
    (\A r \in Runs : d_pc[r] = "done") => d_clusters[1] = d_clusters[2]

\* ========================================================================
\* The crawl: SepSpider.parse_article on each response, then the item
\* pipelines of ITEM_PIPELINES on each item it yields
\* ========================================================================
NumRequests == 2              \* bound: requests the spider makes

Requests == 1..NumRequests

\* settings.ITEM_PIPELINES
ITEM_PIPELINES ==
    {<<"ParsingPipeline", 200>>, <<"LatexProcessingPipeline", 300>>,
     <<"SepStoragePipeline", 400>>}

\* Scrapy runs the pipelines in the order of their values, lowest first.
PipelineOrder ==
    LET order == Ascending({pl[2] : pl \in ITEM_PIPELINES})
    IN  Table([k \in DOMAIN order |->
                 (CHOOSE pl \in ITEM_PIPELINES : pl[2] = order[k])[1]])

\* str.strip() and str.lower() on the strings of the model
Strip(str) == IF str = " Kant " THEN "Kant" ELSE str

Lower(str) ==
    IF str = "True" THEN "true"
    ELSE IF str = "Kant" THEN "kant"
    ELSE IF str = "Untitled" THEN "untitled"
    ELSE str

\* The pages: without #aueditable; with a heading, a preamble and a main
\* text holding a math expression; with #aueditable and nothing in it.
Pages(url) ==
    {[url |-> url, aueditable |-> FALSE, h1 |-> <<>>, preamble |-> FALSE,
      main_text |-> <<>>, related |-> <<>>],
     [url |-> url, aueditable |-> TRUE, h1 |-> <<" Kant ">>, preamble |-> TRUE,
      main_text |-> <<<<PlainText, <<"expr", 1>>, PlainText>>>>, related |-> <<url + 100>>],
     [url |-> url, aueditable |-> TRUE, h1 |-> <<>>, preamble |-> FALSE,
      main_text |-> <<>>, related |-> <<>>]}

\* css(...).get(default='Untitled').strip()
TitleOf(response) ==
    IF response.h1 = <<>> THEN Strip("Untitled") ELSE Strip(response.h1[1])

\* SepSpider.parse_article(response): the items it yields
parse_article(response, dry_run) ==
    IF ~response.aueditable THEN <<>>
    ELSE LET i1 == SetField(SetField(<<>>, "url", response.url), "title", TitleOf(response))
             i2 == IF response.preamble THEN SetField(i1, "preamble_text", "preamble") ELSE i1
             i3 == IF response.main_text # <<>>
                   THEN SetField(i2, "body_text", response.main_text[1]) ELSE i2
             item == SetField(i3, "related_entries", response.related)
         IN  IF Lower(dry_run) = "true" THEN <<>> ELSE <<item>>

\* ParsingPipeline.process_item: raise DropItem unless the item has a response
ParsingPipeline(item) ==
    IF Get(item, "response", <<>>) = <<>>
    THEN [dropped |-> TRUE, item |-> item, counter |-> "item_dropped_count"]
    ELSE LET response == item["response"][1]
             i1 == SetField(SetField(item, "url", response.url), "title", TitleOf(response))
             i2 == SetField(i1, "preamble_text",
                            IF response.preamble THEN "preamble" ELSE "")
             i3 == SetField(i2, "body_text",
                            IF response.main_text # <<>> THEN response.main_text[1] ELSE <<>>)
             i4 == SetField(i3, "related_entries", response.related)
         IN  [dropped |-> FALSE, item |-> DelField(i4, "response"),
              counter |-> "articles_parsed"]

\* latex_pattern.sub(latex_replacer, raw_text)
RECURSIVE LatexSub(_, _, _, _)
LatexSub(raw_text, uniq, to_id, out) ==
    IF raw_text = <<>> THEN [text |-> out, unique_expressions |-> uniq]
    ELSE IF Head(raw_text) = PlainText
    THEN LatexSub(Tail(raw_text), uniq, to_id, Append(out, PlainText))
    ELSE LET r == latex_replacer(uniq, to_id, Head(raw_text))
         IN  LatexSub(Tail(raw_text), r.unique_expressions, r.expression_to_id,
                      Append(out, r.placeholder))

\* LatexProcessingPipeline.process_item
LatexProcessingPipeline(item) ==
    IF NoRawText(item)
    THEN [dropped |-> FALSE,
          item |-> DelField(SetField(SetField(item, "text_with_placeholders", <<>>),
                                     "math_expressions", <<>>), "body_text"),
          counter |-> ""]
    ELSE LET subbed == LatexSub(item["body_text"], <<>>, <<>>, <<>>)
         IN  [dropped |-> FALSE,
              item |-> DelField(SetField(SetField(item, "text_with_placeholders", subbed.text),
                                         "math_expressions", subbed.unique_expressions),
                                "body_text"),
              counter |-> "latex_processed"]

\* SepStoragePipeline.clean_for_filename
clean_for_filename(text) == IF text = "" THEN "untitled" ELSE Lower(text)

\* SepStoragePipeline.process_item: the file it writes, if the write succeeds
SepStoragePipeline(item, write_ok) ==
    [dropped |-> FALSE, item |-> item,
     file |-> IF write_ok
              THEN <<clean_for_filename(Get(item, "title", "untitled")), item>> ELSE <<>>,
     counter |-> IF write_ok THEN "articles_saved" ELSE "save_errors"]

\* process_item of the pipeline named
process_item(pipeline, item, write_ok) ==
    IF pipeline = "ParsingPipeline"
    THEN [file |-> <<>>] @@ ParsingPipeline(item)
    ELSE IF pipeline = "LatexProcessingPipeline"
    THEN [file |-> <<>>] @@ LatexProcessingPipeline(item)
    ELSE SepStoragePipeline(item, write_ok)

Counters ==
    {"item_dropped_count", "articles_parsed", "latex_processed", "articles_saved",
     "save_errors"}

InitCrawl ==
    /\ c_dry_run \in {"false", "true", "True"}
    /\ c_responses \in {rs \in [Requests -> UNION {Pages(u) : u \in Requests}] :
                            \A u \in Requests : rs[u].url = u}
    /\ c_write_ok \in [Requests -> BOOLEAN]
    /\ c_status = [u \in Requests |-> "pending"]
    /\ c_stage = [u \in Requests |-> 0]
    /\ c_item = [u \in Requests |-> <<>>]
    /\ c_files = <<>>
    /\ c_stats = [c \in Counters |-> 0]
    /\ MainIdle /\ GraphIdle /\ BridgeIdle /\ TfidfIdle /\ RunIdle /\ LatexIdle
    /\ EntityIdle /\ SeedIdle

\* the engine calls the callback parse_article on a downloaded response
ParseArticle(u) ==
    /\ c_status[u] = "pending"
    /\ LET yielded == parse_article(c_responses[u], c_dry_run)
       IN  IF yielded = <<>>
           THEN /\ c_status' = [c_status EXCEPT ![u] = "no_item"]
                /\ UNCHANGED <<c_stage, c_item>>
           ELSE /\ c_status' = [c_status EXCEPT ![u] = "pipeline"]
                /\ c_stage' = [c_stage EXCEPT ![u] = 1]
                /\ c_item' = [c_item EXCEPT ![u] = yielded[1]]
    /\ UNCHANGED <<c_dry_run, c_responses, c_write_ok, c_files, c_stats,
                   envVars, mainVars, graphVars, bridgeVars, tfidfVars, runVars,
                   latexVars, entityVars, seedVars>>

\* the item pipeline manager passes the item to its next pipeline
ProcessItem(u) ==
    /\ c_status[u] = "pipeline"
    /\ LET out == process_item(PipelineOrder[c_stage[u]], c_item[u], c_write_ok[u])
       IN  /\ c_item' = [c_item EXCEPT ![u] = out.item]
           /\ c_status' = [c_status EXCEPT ![u] =
                  IF out.dropped THEN "dropped"
                  ELSE IF c_stage[u] = Len(PipelineOrder) THEN "scraped"
                  ELSE "pipeline"]
           /\ c_stage' = [c_stage EXCEPT ![u] =
                  IF out.dropped THEN c_stage[u] ELSE c_stage[u] + 1]
           /\ c_files' = IF out.file = <<>> THEN c_files
                         ELSE (out.file[1] :> out.file[2]) @@ c_files
           /\ c_stats' = IF out.counter = "" THEN c_stats
                         ELSE [c_stats EXCEPT ![out.counter] = @ + 1]
    /\ UNCHANGED <<c_dry_run, c_responses, c_write_ok,
                   envVars, mainVars, graphVars, bridgeVars, tfidfVars, runVars,
                   latexVars, entityVars, seedVars>>

NextCrawl ==
    \/ \E u \in Requests : ParseArticle(u)
    \/ \E u \in Requests : ProcessItem(u)

SpecCrawl == InitCrawl /\ [][NextCrawl]_vars

\* ------------------------------------------------------------------------
\* Properties of the crawl
\* ------------------------------------------------------------------------
\* C16 (as the claim states it): an item parse_article yielded is never
\* dropped, the pipelines it has passed are the first ones of the order
\* Parsing (200), Latex (300), Storage (400), and once it has passed all
\* three a record with url, title, related_entries and
\* text_with_placeholders is in the output directory.
C16_Original ==
    /\ PipelineOrder = <<"ParsingPipeline", "LatexProcessingPipeline", "SepStoragePipeline">>
    /\ \A u \in Requests :
          /\ c_status[u] # "dropped"
          /\ c_status[u] = "scraped" =>
                \E f \in DOMAIN c_files :
                    /\ c_files[f]["url"] = u
                    /\ {"url", "title", "related_entries", "text_with_placeholders"}
                          \subseteq DOMAIN c_files[f]

====
